---------------------------- MODULE Spec2Model ----------------------------
(***************************************************************************)
(* H-RTK F9P GPS bridge firmware (src/pico/main.py).                       *)
(*                                                                         *)
(* The module models three layers of the firmware:                         *)
(*   - the IST8310 magnetometer driver and the sensor bus it talks to,     *)
(*   - the NoiseFeedback controller (LED ring + buzzer beep state),        *)
(*   - the GpsBridge main loop that forwards bytes between the receiver    *)
(*     link (UART) and the host channel (USB CDC stdin/stdout).            *)
(*                                                                         *)
(* Units: time is in milliseconds of time.ticks_ms(); magnetic values are  *)
(* in tenths of a microtesla (raw * 0.3 uT = 3 * raw tenths); noise values *)
(* are in hundredths of a microtesla.                                      *)
(***************************************************************************)
EXTENDS Integers, Sequences, FiniteSets, TLC

VARIABLES
    now,              \* time.ticks_ms()
    \* ---- sensor bus / IST8310 device
    dev,              \* "idle" | "measuring" | "ready"   (ready = DRDY set)
    devData,          \* the three raw 16-bit data registers <<x, y, z>>
    \* ---- IST8310 driver
    initialized,      \* IST8310.initialized
    \* ---- record of the most recent operation
    lastOp,           \* name of the operation that ran last
    lastRet,          \* what it returned
    lastBus,          \* bus transactions it attempted, in order
    lastFault,        \* the bus transaction that faulted in it ("none")
    preInit,          \* IST8310.initialized when it started
    \* ---- NoiseFeedback
    np,               \* NeoPixel buffer: 0..15 -> <<r, g, b>>
    duty,             \* buzzer PWM duty_u16
    pwmFreq,          \* buzzer PWM frequency
    ledEnabled, buzzerEnabled,
    lastBeepTime, beepState, currentFreq, currentInterval,
    buzLog,           \* duty_u16 writes of the most recent operation
    \* ---- GpsBridge
    pc,               \* position of GpsBridge.run
    iterSteps,        \* steps completed in the current loop iteration
    uartRx,           \* receiver link: bytes buffered for uart.read
    uartTx,           \* receiver link: bytes written with uart.write
    hostIn,           \* host channel: bytes buffered for sys.stdin
    hostOut,          \* host channel: bytes written to sys.stdout
    bytesReceived, bytesSent,
    ledState, lastLedToggle, lastMagRead, lastNoise,
    \* ---- environment counters
    rxSeq,            \* receiver bytes produced so far
    hostSeq,          \* host bytes produced so far
    hostBursts,       \* bursts the host sent so far
    tickCount,        \* clock advances so far
    sampleCount,      \* measurements the device completed so far
    \* ---- a function of the program called on its own
    callArg,          \* the arguments of the call
    callRet,          \* what it returned
    \* ---- history
    uptime,           \* ms since boot, not wrapped (now = uptime mod TICKS_PERIOD)
    beepStampAt,      \* uptime at which lastBeepTime was last assigned
    magAttempts,      \* uptimes of the readMagneticField calls of the loop
    magSent,          \* uptimes of the $PIMAG sentences written
    ledToggles        \* uptimes at which the heartbeat LED was inverted

sensorVars   == <<dev, devData, initialized>>
callVars     == <<lastOp, lastRet, lastBus, lastFault, preInit>>
feedbackVars == <<np, duty, pwmFreq, ledEnabled, buzzerEnabled, lastBeepTime,
                  beepState, currentFreq, currentInterval>>
bridgeVars   == <<pc, iterSteps, uartRx, uartTx, hostIn, hostOut, bytesReceived,
                  bytesSent, ledState, lastLedToggle, lastMagRead, lastNoise>>
envVars      == <<rxSeq, hostSeq, hostBursts, tickCount, sampleCount>>
pureVars     == <<callArg, callRet>>
histVars     == <<uptime, beepStampAt, magAttempts, magSent, ledToggles>>
vars == <<now, sensorVars, callVars, feedbackVars, buzLog, bridgeVars, envVars,
          pureVars, histVars>>

-----------------------------------------------------------------------------
(* Bounds of the model. *)
MaxRxBytes   == 2     \* receiver bytes the environment produces
MaxHostBursts == 1    \* bursts the host sends
MaxTicks     == 2     \* clock advances
MaxSamples   == 2     \* measurements the device completes
MaxPayloadLen == 3    \* bytes of a payload handed to buildMessage
MaxNoise100  == 1500  \* largest noise handed to the feedback functions

(* Program constants. *)
UART_BUFFER_SIZE     == 512
USB_BUFFER_SIZE      == 64
NEOPIXEL_COUNT       == 16
MAG_READ_INTERVAL_MS == 50
REFERENCE_MAG100     == 4600
NOISE_THRESHOLD_SAFE100    == 500
NOISE_THRESHOLD_CAUTION100 == 600
NOISE_THRESHOLD_WARNING100 == 800
NOISE_THRESHOLD_DANGER100  == 1000
beepDuration         == 50
DUTY_ON              == 32768
LED_TOGGLE_MS        == 100

\* return values: readMagneticField's None and (magX, magY, magZ),
\* initialize's False and True
\* initialize's False and True; Raised stands for a call that did not return
\* because an exception left it
None      == [ok |-> FALSE, val |-> <<>>, raised |-> FALSE]
Sample(v) == [ok |-> TRUE, val |-> v, raised |-> FALSE]
Bool(b)   == [ok |-> b, val |-> <<>>, raised |-> FALSE]
Raised    == [ok |-> FALSE, val |-> <<>>, raised |-> TRUE]

(* time.ticks_ms() wraps at TICKS_PERIOD; time.ticks_diff is the signed      *)
(* difference modulo the period, in -TICKS_PERIOD/2 .. TICKS_PERIOD/2 - 1.   *)
TICKS_PERIOD == 2^30
TICKS_HALF   == TICKS_PERIOD \div 2

ticks_add(t, d) == (t + d) % TICKS_PERIOD

\* the difference by plain subtraction, without the wraparound
ticks_diff_naive(a, b) == a - b
ticks_diff(a, b) == ((a - b + TICKS_HALF) % TICKS_PERIOD) - TICKS_HALF

-----------------------------------------------------------------------------
(* IST8310 device on the sensor bus.  A write of 1 to CNTL2 soft-resets    *)
(* the device, a write of 1 to CNTL1 starts one measurement; the device    *)
(* sets DRDY (STAT1 bit 0) when the measurement is complete and clears it  *)
(* when the data registers are read.  A transaction that faults has no     *)
(* effect on the device.                                                   *)
(* Raw register contents: 153 LSB = 45.9 uT (noise 0.1 uT, silent) and     *)
(* 65336 = -200 LSB = -60 uT (noise 14 uT, fastest beep) for the bridge;   *)
(* the driver on its own also sees the values around the sign cutover.     *)
RawSamples    == { <<153, 0, 0>>, <<65336, 0, 0>> }
SensorSamples == RawSamples \cup { <<0, 32767, 32768>>, <<65535, 1, 65336>>,
                                 <<32768, 32768, 32768>>, <<32767, 65535, 0>> }

DevAfterReset(d)    == "idle"
DevAfterStart(d)    == "measuring"
DevAfterDataRead(d) == "idle"
Drdy(d)             == IF d = "ready" THEN 1 ELSE 0

DeviceMeasures(samples) ==
    /\ dev = "measuring"
    /\ sampleCount < MaxSamples
    /\ \E raw \in samples : devData' = raw
    /\ dev' = "ready"
    /\ sampleCount' = sampleCount + 1
    /\ UNCHANGED <<histVars, pureVars, now, initialized, callVars, feedbackVars, buzLog, bridgeVars,
                   rxSeq, hostSeq, hostBursts, tickCount>>

-----------------------------------------------------------------------------
(* IST8310 driver.                                                         *)

\* int.from_bytes(data[k:k+2], 'little')
fromLittleEndian(lo, hi) == lo + 256 * hi

\* the signed conversion with the cutover one too low
toSignedCutoverLow(raw) == IF raw >= 32767 THEN raw - 65536 ELSE raw

\* raw unsigned 16-bit -> signed two's complement
toSigned(raw) == IF raw > 32767 THEN raw - 65536 ELSE raw

\* raw * 0.3 uT, in tenths of a microtesla
toTenths(raw) == toSigned(raw) * 3

InitFaults == {"none", "wCNTL2", "wCNTL1"}
ReadFaults == {"none", "rSTAT1", "rDATA", "wCNTL1"}

(* IST8310.initialize: the outcome of one call as a record.  `present` is  *)
(* whether i2c.scan() lists the device address, `f` the transaction that   *)
(* raises (if it is attempted).                                            *)
\* initialize that sets the flag before the start-measurement write
initializeOutcomeFlagsEarly(init, d, present, f) ==
    IF ~present
    THEN [ret |-> Bool(FALSE), bus |-> <<"scan">>, fault |-> "none",
          dev |-> d, initialized |-> init]
    ELSE IF f = "wCNTL2"
    THEN [ret |-> Bool(FALSE), bus |-> <<"scan", "wCNTL2">>, fault |-> f,
          dev |-> d, initialized |-> init]
    ELSE IF f = "wCNTL1"
    THEN [ret |-> Bool(FALSE), bus |-> <<"scan", "wCNTL2", "wCNTL1">>, fault |-> f,
          dev |-> DevAfterReset(d), initialized |-> TRUE]
    ELSE [ret |-> Bool(TRUE), bus |-> <<"scan", "wCNTL2", "wCNTL1">>, fault |-> "none",
          dev |-> DevAfterStart(DevAfterReset(d)), initialized |-> TRUE]

initializeOutcome(init, d, present, f) ==
    IF ~present
    THEN [ret |-> Bool(FALSE), bus |-> <<"scan">>, fault |-> "none",
          dev |-> d, initialized |-> init]
    ELSE IF f = "wCNTL2"
    THEN [ret |-> Bool(FALSE), bus |-> <<"scan", "wCNTL2">>, fault |-> f,
          dev |-> d, initialized |-> init]
    ELSE IF f = "wCNTL1"
    THEN [ret |-> Bool(FALSE), bus |-> <<"scan", "wCNTL2", "wCNTL1">>, fault |-> f,
          dev |-> DevAfterReset(d), initialized |-> init]
    ELSE [ret |-> Bool(TRUE), bus |-> <<"scan", "wCNTL2", "wCNTL1">>, fault |-> "none",
          dev |-> DevAfterStart(DevAfterReset(d)), initialized |-> TRUE]

(* IST8310.triggerMeasurement: the write to CNTL1; a fault is swallowed.   *)
triggerMeasurement(d, f) == IF f = "wCNTL1" THEN d ELSE DevAfterStart(d)

\* readMagneticField without its try/except: a bus fault leaves the call
readOutcomeUncaught(init, d, data, f) ==
    IF ~init
    THEN [ret |-> None, bus |-> <<>>, fault |-> "none", dev |-> d]
    ELSE IF f = "rSTAT1"
    THEN [ret |-> Raised, bus |-> <<"rSTAT1">>, fault |-> f, dev |-> d]
    ELSE IF Drdy(d) = 0
    THEN [ret |-> None, bus |-> <<"rSTAT1">>, fault |-> "none", dev |-> d]
    ELSE IF f = "rDATA"
    THEN [ret |-> Raised, bus |-> <<"rSTAT1", "rDATA">>, fault |-> f, dev |-> d]
    ELSE [ret |-> Sample(<<toTenths(data[1]), toTenths(data[2]), toTenths(data[3])>>),
          bus |-> <<"rSTAT1", "rDATA", "wCNTL1">>,
          fault |-> IF f = "wCNTL1" THEN f ELSE "none",
          dev |-> triggerMeasurement(DevAfterDataRead(d), f)]

\* readMagneticField without the `if not self.initialized` early return
readOutcomeNoInitCheck(init, d, data, f) ==
    IF f = "rSTAT1"
    THEN [ret |-> None, bus |-> <<"rSTAT1">>, fault |-> f, dev |-> d]
    ELSE IF Drdy(d) = 0
    THEN [ret |-> None, bus |-> <<"rSTAT1">>, fault |-> "none", dev |-> d]
    ELSE IF f = "rDATA"
    THEN [ret |-> None, bus |-> <<"rSTAT1", "rDATA">>, fault |-> f, dev |-> d]
    ELSE [ret |-> Sample(<<toTenths(data[1]), toTenths(data[2]), toTenths(data[3])>>),
          bus |-> <<"rSTAT1", "rDATA", "wCNTL1">>,
          fault |-> IF f = "wCNTL1" THEN f ELSE "none",
          dev |-> triggerMeasurement(DevAfterDataRead(d), f)]

\* readMagneticField that re-arms the measurement also when DRDY is clear
readOutcomeRearmsAlways(init, d, data, f) ==
    IF ~init
    THEN [ret |-> None, bus |-> <<>>, fault |-> "none", dev |-> d]
    ELSE IF f = "rSTAT1"
    THEN [ret |-> None, bus |-> <<"rSTAT1">>, fault |-> f, dev |-> d]
    ELSE IF Drdy(d) = 0
    THEN [ret |-> None, bus |-> <<"rSTAT1", "wCNTL1">>, fault |-> "none",
          dev |-> DevAfterStart(d)]
    ELSE IF f = "rDATA"
    THEN [ret |-> None, bus |-> <<"rSTAT1", "rDATA">>, fault |-> f, dev |-> d]
    ELSE [ret |-> Sample(<<toTenths(data[1]), toTenths(data[2]), toTenths(data[3])>>),
          bus |-> <<"rSTAT1", "rDATA", "wCNTL1">>,
          fault |-> IF f = "wCNTL1" THEN f ELSE "none",
          dev |-> triggerMeasurement(DevAfterDataRead(d), f)]

(* IST8310.readMagneticField: the outcome of one call as a record.         *)
readOutcome(init, d, data, f) ==
    IF ~init
    THEN [ret |-> None, bus |-> <<>>, fault |-> "none", dev |-> d]
    ELSE IF f = "rSTAT1"
    THEN [ret |-> None, bus |-> <<"rSTAT1">>, fault |-> f, dev |-> d]
    ELSE IF Drdy(d) = 0
    THEN [ret |-> None, bus |-> <<"rSTAT1">>, fault |-> "none", dev |-> d]
    ELSE IF f = "rDATA"
    THEN [ret |-> None, bus |-> <<"rSTAT1", "rDATA">>, fault |-> f, dev |-> d]
    ELSE [ret |-> Sample(<<toTenths(data[1]), toTenths(data[2]), toTenths(data[3])>>),
          bus |-> <<"rSTAT1", "rDATA", "wCNTL1">>,
          fault |-> IF f = "wCNTL1" THEN f ELSE "none",
          dev |-> triggerMeasurement(DevAfterDataRead(d), f)]

\* a chosen fault counts only when its transaction is attempted
InitFaultApplies(present, f) == f = "none" \/ present
ReadFaultApplies(init, d, f) ==
    \/ f = "none"
    \/ init /\ f = "rSTAT1"
    \/ init /\ Drdy(d) = 1 /\ f \in {"rDATA", "wCNTL1"}

initialize(present, f) ==
    LET o == initializeOutcome(initialized, dev, present, f) IN
    /\ InitFaultApplies(present, f)
    /\ initialized' = o.initialized
    /\ dev' = o.dev
    /\ lastRet' = o.ret
    /\ lastBus' = o.bus
    /\ lastFault' = o.fault
    /\ preInit' = initialized
    /\ UNCHANGED devData

readMagneticField(f) ==
    LET o == readOutcome(initialized, dev, devData, f) IN
    /\ ReadFaultApplies(initialized, dev, f)
    /\ dev' = o.dev
    /\ lastRet' = o.ret
    /\ lastBus' = o.bus
    /\ lastFault' = o.fault
    /\ preInit' = initialized
    /\ UNCHANGED <<devData, initialized>>

-----------------------------------------------------------------------------
(* NoiseFeedback.                                                          *)

LedIndex == 0 .. (NEOPIXEL_COUNT - 1)

\* int(c * NEOPIXEL_BRIGHTNESS) with NEOPIXEL_BRIGHTNESS = 0.25, c >= 0
scaleBrightness(c) == c \div 4

\* setAllLeds that writes the colour at full brightness
setAllLedsUnscaled(r, g, b) == [i \in LedIndex |-> <<r, g, b>>]

(* NoiseFeedback.setAllLeds: the NeoPixel buffer after the call.           *)
setAllLeds(r, g, b) ==
    [i \in LedIndex |-> <<scaleBrightness(r), scaleBrightness(g), scaleBrightness(b)>>]

(* NoiseFeedback.calculateColor, noise in hundredths of a microtesla.      *)
(* The colour of each band for ratio = num / den, 0 <= num <= den; int()   *)
(* truncates and every operand is non-negative.                            *)
\* (int(128 * ratio), 255, 0)
cautionColor(num, den) == <<(128 * num) \div den, 255, 0>>

\* the warning band with the red channel rising by 128 instead of 127
warningColorOvershoot(num, den) ==
    <<128 + (128 * num) \div den, (255 * (2 * den - num)) \div (2 * den), 0>>

\* (int(128 + 127 * ratio), int(255 * (1 - ratio * 0.5)), 0)
warningColor(num, den) ==
    <<128 + (127 * num) \div den, (255 * (2 * den - num)) \div (2 * den), 0>>

\* (255, int(128 * (1 - ratio)), 0)
dangerColor(num, den) == <<255, (128 * (den - num)) \div den, 0>>

calculateColor(noise) ==
    IF noise <= NOISE_THRESHOLD_SAFE100 THEN <<0, 255, 0>>
    ELSE IF noise <= NOISE_THRESHOLD_CAUTION100 THEN
        cautionColor(noise - NOISE_THRESHOLD_SAFE100,
                     NOISE_THRESHOLD_CAUTION100 - NOISE_THRESHOLD_SAFE100)
    ELSE IF noise <= NOISE_THRESHOLD_WARNING100 THEN
        warningColor(noise - NOISE_THRESHOLD_CAUTION100,
                     NOISE_THRESHOLD_WARNING100 - NOISE_THRESHOLD_CAUTION100)
    ELSE IF noise <= NOISE_THRESHOLD_DANGER100 THEN
        dangerColor(noise - NOISE_THRESHOLD_WARNING100,
                    NOISE_THRESHOLD_DANGER100 - NOISE_THRESHOLD_WARNING100)
    ELSE <<255, 0, 0>>

\* calculateBeepParams with the 7.0 edge exclusive
calculateBeepParamsExclusiveEdge(noise) ==
    IF noise <= NOISE_THRESHOLD_SAFE100 THEN <<0, 0>>
    ELSE IF noise <= NOISE_THRESHOLD_CAUTION100 THEN <<400, 700>>
    ELSE IF noise < 700 THEN <<600, 500>>
    ELSE IF noise <= NOISE_THRESHOLD_WARNING100 THEN <<800, 300>>
    ELSE IF noise <= 900 THEN <<1000, 150>>
    ELSE IF noise <= NOISE_THRESHOLD_DANGER100 THEN <<1100, 100>>
    ELSE <<1200, 50>>

(* NoiseFeedback.calculateBeepParams: <<frequency Hz, interval ms>>.       *)
calculateBeepParams(noise) ==
    IF noise <= NOISE_THRESHOLD_SAFE100 THEN <<0, 0>>
    ELSE IF noise <= NOISE_THRESHOLD_CAUTION100 THEN <<400, 700>>
    ELSE IF noise <= 700 THEN <<600, 500>>
    ELSE IF noise <= NOISE_THRESHOLD_WARNING100 THEN <<800, 300>>
    ELSE IF noise <= 900 THEN <<1000, 150>>
    ELSE IF noise <= NOISE_THRESHOLD_DANGER100 THEN <<1100, 100>>
    ELSE <<1200, 50>>

(* NoiseFeedback.update: the LED buffer after the call.                    *)
updateLeds(enabled, leds, noise) ==
    IF enabled
    THEN LET c == calculateColor(noise) IN setAllLeds(c[1], c[2], c[3])
    ELSE leds

update(noise) ==
    /\ np' = updateLeds(ledEnabled, np, noise)
    /\ currentFreq' = calculateBeepParams(noise)[1]
    /\ currentInterval' = calculateBeepParams(noise)[2]
    /\ UNCHANGED <<duty, pwmFreq, ledEnabled, buzzerEnabled, lastBeepTime, beepState>>

(* NoiseFeedback.processBeep: the outcome of one call at tick t.  writes   *)
(* are the duty_u16 values written to the buzzer, in order.                *)
beepWaitTime(interval) ==
    IF interval - beepDuration < 10 THEN 10 ELSE interval - beepDuration

\* processBeep that catches up on a missed period: off and on again in one call
processBeepCatchUp(en, freq, interval, st, last, pf, t) ==
    LET same == [state |-> st, last |-> last, pwmFreq |-> pf, writes |-> <<>>,
                 stamped |-> FALSE] IN
    IF ~en \/ freq = 0
    THEN IF st
         THEN [state |-> FALSE, last |-> last, pwmFreq |-> pf, writes |-> <<0>>,
               stamped |-> FALSE]
         ELSE same
    ELSE IF st
    THEN IF ticks_diff(t, last) >= beepDuration + beepWaitTime(interval)
         THEN [state |-> TRUE, last |-> t, pwmFreq |-> freq, writes |-> <<0, DUTY_ON>>,
               stamped |-> TRUE]
         ELSE IF ticks_diff(t, last) >= beepDuration
         THEN [state |-> FALSE, last |-> t, pwmFreq |-> pf, writes |-> <<0>>,
               stamped |-> TRUE]
         ELSE same
    ELSE IF ticks_diff(t, last) >= beepWaitTime(interval)
         THEN [state |-> TRUE, last |-> t, pwmFreq |-> freq, writes |-> <<DUTY_ON>>,
               stamped |-> TRUE]
         ELSE same

\* processBeep that turns the tone on as soon as it is off, without waiting
processBeepNoWait(en, freq, interval, st, last, pf, t) ==
    LET same == [state |-> st, last |-> last, pwmFreq |-> pf, writes |-> <<>>,
                 stamped |-> FALSE] IN
    IF ~en \/ freq = 0
    THEN IF st
         THEN [state |-> FALSE, last |-> last, pwmFreq |-> pf, writes |-> <<0>>,
               stamped |-> FALSE]
         ELSE same
    ELSE IF st
    THEN IF ticks_diff(t, last) >= beepDuration
         THEN [state |-> FALSE, last |-> t, pwmFreq |-> pf, writes |-> <<0>>,
               stamped |-> TRUE]
         ELSE same
    ELSE [state |-> TRUE, last |-> t, pwmFreq |-> freq, writes |-> <<DUTY_ON>>,
          stamped |-> TRUE]

\* processBeep that leaves beepState set when it forces the tone off
processBeepForcedOffKeepsFlag(en, freq, interval, st, last, pf, t) ==
    LET same == [state |-> st, last |-> last, pwmFreq |-> pf, writes |-> <<>>,
                 stamped |-> FALSE] IN
    IF ~en \/ freq = 0
    THEN IF st
         THEN [state |-> TRUE, last |-> last, pwmFreq |-> pf, writes |-> <<0>>,
               stamped |-> FALSE]
         ELSE same
    ELSE IF st
    THEN IF ticks_diff(t, last) >= beepDuration
         THEN [state |-> FALSE, last |-> t, pwmFreq |-> pf, writes |-> <<0>>,
               stamped |-> TRUE]
         ELSE same
    ELSE IF ticks_diff(t, last) >= beepWaitTime(interval)
         THEN [state |-> TRUE, last |-> t, pwmFreq |-> freq, writes |-> <<DUTY_ON>>,
               stamped |-> TRUE]
         ELSE same

\* processBeep that records the toggle time when it forces the tone off
processBeepStampsSilence(en, freq, interval, st, last, pf, t) ==
    LET same == [state |-> st, last |-> last, pwmFreq |-> pf, writes |-> <<>>,
                 stamped |-> FALSE] IN
    IF ~en \/ freq = 0
    THEN IF st
         THEN [state |-> FALSE, last |-> t, pwmFreq |-> pf, writes |-> <<0>>,
               stamped |-> TRUE]
         ELSE same
    ELSE IF st
    THEN IF ticks_diff(t, last) >= beepDuration
         THEN [state |-> FALSE, last |-> t, pwmFreq |-> pf, writes |-> <<0>>,
               stamped |-> TRUE]
         ELSE same
    ELSE IF ticks_diff(t, last) >= beepWaitTime(interval)
         THEN [state |-> TRUE, last |-> t, pwmFreq |-> freq, writes |-> <<DUTY_ON>>,
               stamped |-> TRUE]
         ELSE same

processBeepOutcome(en, freq, interval, st, last, pf, t) ==
    LET same == [state |-> st, last |-> last, pwmFreq |-> pf, writes |-> <<>>,
                 stamped |-> FALSE] IN
    IF ~en \/ freq = 0
    THEN IF st
         THEN [state |-> FALSE, last |-> last, pwmFreq |-> pf, writes |-> <<0>>,
               stamped |-> FALSE]
         ELSE same
    ELSE IF st
    THEN IF ticks_diff(t, last) >= beepDuration
         THEN [state |-> FALSE, last |-> t, pwmFreq |-> pf, writes |-> <<0>>,
               stamped |-> TRUE]
         ELSE same
    ELSE IF ticks_diff(t, last) >= beepWaitTime(interval)
         THEN [state |-> TRUE, last |-> t, pwmFreq |-> freq, writes |-> <<DUTY_ON>>,
               stamped |-> TRUE]
         ELSE same

\* the buzzer duty after a sequence of duty_u16 writes
DutyAfter(d, writes) == IF writes = <<>> THEN d ELSE writes[Len(writes)]

processBeep ==
    LET o == processBeepOutcome(buzzerEnabled, currentFreq, currentInterval,
                                beepState, lastBeepTime, pwmFreq, now) IN
    /\ beepState' = o.state
    /\ lastBeepTime' = o.last
    /\ beepStampAt' = IF o.stamped THEN uptime ELSE beepStampAt
    /\ pwmFreq' = o.pwmFreq
    /\ duty' = DutyAfter(duty, o.writes)
    /\ buzLog' = o.writes
    /\ UNCHANGED <<np, ledEnabled, buzzerEnabled, currentFreq, currentInterval>>

\* setEnabled that only stores the two flags
setEnabledFlagsOnly(led, buzzer, leds, st) ==
    [leds |-> leds, state |-> st, writes |-> <<>>]

(* NoiseFeedback.setEnabled: the outcome of one call.                      *)
setEnabledOutcome(led, buzzer, leds, st) ==
    [leds   |-> IF ~led THEN setAllLeds(0, 0, 0) ELSE leds,
     state  |-> IF ~buzzer THEN FALSE ELSE st,
     writes |-> IF ~buzzer THEN <<0>> ELSE <<>>]

setEnabled(led, buzzer) ==
    LET o == setEnabledOutcome(led, buzzer, np, beepState) IN
    /\ ledEnabled' = led
    /\ buzzerEnabled' = buzzer
    /\ np' = o.leds
    /\ beepState' = o.state
    /\ duty' = DutyAfter(duty, o.writes)
    /\ buzLog' = o.writes
    /\ UNCHANGED <<pwmFreq, lastBeepTime, currentFreq, currentInterval>>

(* NoiseFeedback.off *)
off ==
    /\ np' = setAllLeds(0, 0, 0)
    /\ duty' = 0
    /\ beepState' = FALSE
    /\ buzLog' = <<0>>
    /\ UNCHANGED <<pwmFreq, ledEnabled, buzzerEnabled, lastBeepTime,
                   currentFreq, currentInterval>>

-----------------------------------------------------------------------------
(* UBX frames.                                                             *)

RECURSIVE checksumFrom(_, _, _, _)
checksumFrom(bytes, i, ckA, ckB) ==
    IF i > Len(bytes) THEN <<ckA, ckB>>
    ELSE LET a == (ckA + bytes[i]) % 256 IN
         checksumFrom(bytes, i + 1, a, (ckB + a) % 256)

(* UbxCommand.calculateChecksum *)
calculateChecksum(bytes) == checksumFrom(bytes, 1, 0, 0)

SYNC_CHAR_1 == 181
SYNC_CHAR_2 == 98
CLASS_CFG   == 6
CLASS_ESF   == 16
ID_CFG_MSG  == 1
ID_ESF_RAW  == 3
ID_ESF_MEAS == 2

\* the two length bytes of the frame: payloadLen & 0xFF, (payloadLen >> 8) & 0xFF
lengthField(payloadLen) == <<payloadLen % 256, (payloadLen \div 256) % 256>>

\* buildMessage with the checksum taken over the whole frame, sync bytes too
buildMessageChecksumsSync(msgClass, msgId, payload) ==
    LET msg == <<msgClass, msgId>> \o lengthField(Len(payload)) \o payload
        ck  == calculateChecksum(<<SYNC_CHAR_1, SYNC_CHAR_2>> \o msg)
    IN  <<SYNC_CHAR_1, SYNC_CHAR_2>> \o msg \o <<ck[1], ck[2]>>

(* UbxCommand.buildMessage *)
buildMessage(msgClass, msgId, payload) ==
    LET msg == <<msgClass, msgId>> \o lengthField(Len(payload)) \o payload
        ck  == calculateChecksum(msg)
    IN  <<SYNC_CHAR_1, SYNC_CHAR_2>> \o msg \o <<ck[1], ck[2]>>

(* What buildMessage returns for a payload of payloadLen bytes: the code   *)
(* has no failure path, the frame is the header, the payload and the       *)
(* checksum, with the length bytes above.                                  *)
buildMessageShape(payloadLen) ==
    [raised      |-> FALSE,
     frameLen    |-> 2 + 4 + payloadLen + 2,
     lengthField |-> lengthField(payloadLen)]

(* UbxCommand.buildEnableEsfRawCommand, buildEnableEsfMeasCommand *)
buildEnableEsfRawCommand ==
    buildMessage(CLASS_CFG, ID_CFG_MSG, <<CLASS_ESF, ID_ESF_RAW, 1>>)
buildEnableEsfMeasCommand ==
    buildMessage(CLASS_CFG, ID_CFG_MSG, <<CLASS_ESF, ID_ESF_MEAS, 1>>)

(* GpsBridge.buildCfgMsgCommand: UBX-CFG-MSG with the inline checksum loop *)
buildCfgMsgCommand(msgClass, msgId, uart1Rate) ==
    LET payload == <<msgClass, msgId, 0, uart1Rate, 0, 1, 0, 0>>
        header  == <<6, 1>>
        length  == Len(payload)
        checksumData == header \o <<length % 256, (length \div 256) % 256>> \o payload
        ck == checksumFrom(checksumData, 1, 0, 0)
    IN  <<181, 98>> \o checksumData \o <<ck[1], ck[2]>>

(* tools/enable_uart1_nmea.py: calculate_checksum, the tool's own loop     *)
RECURSIVE calculate_checksum_from(_, _, _, _)
calculate_checksum_from(payload, i, ck_a, ck_b) ==
    IF i > Len(payload) THEN <<ck_a, ck_b>>
    ELSE LET a == (ck_a + payload[i]) % 256
             b == (ck_b + a) % 256
         IN  calculate_checksum_from(payload, i + 1, a, b)

calculate_checksum(payload) == calculate_checksum_from(payload, 1, 0, 0)

\* create_ubx_cfg_msg with the checksum taken over the payload alone
create_ubx_cfg_msg_payload_only(msg_class, msg_id, uart1_rate) ==
    LET payload == <<msg_class, msg_id, 0, uart1_rate, 0, 1, 0, 0>>
        header  == <<6, 1>>
        length  == Len(payload)
        checksum_data == header \o <<length % 256, (length \div 256) % 256>> \o payload
        ck == calculate_checksum(payload)
    IN  <<181, 98>> \o checksum_data \o <<ck[1], ck[2]>>

(* tools/enable_uart1_nmea.py: create_ubx_cfg_msg *)
create_ubx_cfg_msg(msg_class, msg_id, uart1_rate) ==
    LET payload == <<msg_class, msg_id, 0, uart1_rate, 0, 1, 0, 0>>
        header  == <<6, 1>>
        length  == Len(payload)
        checksum_data == header \o <<length % 256, (length \div 256) % 256>> \o payload
        ck == calculate_checksum(checksum_data)
    IN  <<181, 98>> \o checksum_data \o <<ck[1], ck[2]>>

-----------------------------------------------------------------------------
(* The $PIMAG sentence.  Characters are their code points.                 *)

Min(a, b) == IF a < b THEN a ELSE b
Abs(a)    == IF a < 0 THEN -a ELSE a

RECURSIVE SqrtSearch(_, _, _)
SqrtSearch(n, lo, hi) ==    \* the largest r in lo..hi with r*r <= n
    IF lo = hi THEN lo
    ELSE LET mid == (lo + hi + 1) \div 2 IN
         IF mid * mid <= n THEN SqrtSearch(n, mid, hi) ELSE SqrtSearch(n, lo, mid - 1)

Isqrt(n) == SqrtSearch(n, 0, 46340)

\* 100 * (magX**2 + magY**2 + magZ**2) ** 0.5 is the square root of this
FieldSquared100(m) == 100 * (m[1] * m[1] + m[2] * m[2] + m[3] * m[3])

\* totalField to two decimal places, as f"{totalField:.2f}" rounds it
totalField100(m) ==
    LET n == FieldSquared100(m)
        r == Isqrt(n)
    IN  IF n - r * r > r THEN r + 1 ELSE r

(* noise = abs(totalField - REFERENCE_MAG) in hundredths, rounded up, so   *)
(* that noise <= threshold is decided exactly for every threshold that is  *)
(* a whole number of hundredths.                                           *)
noiseOf(m) ==
    LET n == FieldSquared100(m)
        r == Isqrt(n)
    IN  IF r >= REFERENCE_MAG100
        THEN (IF r * r = n THEN r ELSE r + 1) - REFERENCE_MAG100
        ELSE REFERENCE_MAG100 - r

RECURSIVE Digits(_)
Digits(n) ==    \* decimal digits of n >= 0
    IF n < 10 THEN <<48 + n>> ELSE Digits(n \div 10) \o <<48 + (n % 10)>>

\* f"{v:.2f}" for v given in hundredths
Fixed2(v100) ==
    (IF v100 < 0 THEN <<45>> ELSE <<>>)
        \o Digits(Abs(v100) \div 100)
        \o <<46, 48 + ((Abs(v100) \div 10) % 10), 48 + (Abs(v100) % 10)>>

RECURSIVE BitXor(_, _)
BitXor(a, b) ==
    IF a = 0 THEN b
    ELSE IF b = 0 THEN a
    ELSE ((a + b) % 2) + 2 * BitXor(a \div 2, b \div 2)

RECURSIVE xorFrom(_, _, _)
xorFrom(chars, i, acc) ==
    IF i > Len(chars) THEN acc ELSE xorFrom(chars, i + 1, BitXor(acc, chars[i]))

HexDigit(d) == IF d < 10 THEN 48 + d ELSE 55 + d

\* the checksum taken over the sentence from its '$' on
calculateNmeaChecksumWithDollar(body) ==
    LET ck == xorFrom(body, 1, 36) IN <<HexDigit(ck \div 16), HexDigit(ck % 16)>>

(* IST8310.calculateNmeaChecksum: f"{checksum:02X}" of the XOR of the body *)
calculateNmeaChecksum(body) ==
    LET ck == xorFrom(body, 1, 0) IN <<HexDigit(ck \div 16), HexDigit(ck % 16)>>

(* IST8310.formatAsNmea; m is <<magX, magY, magZ>> in tenths of a uT.      *)
nmeaBody(m) ==
    <<80, 73, 77, 65, 71>>
        \o <<44>> \o Fixed2(10 * m[1])
        \o <<44>> \o Fixed2(10 * m[2])
        \o <<44>> \o Fixed2(10 * m[3])
        \o <<44>> \o Fixed2(totalField100(m))

formatAsNmea(m) ==
    <<36>> \o nmeaBody(m) \o <<42>> \o calculateNmeaChecksum(nmeaBody(m)) \o <<13, 10>>

-----------------------------------------------------------------------------
(* The state after GpsBridge.__init__ (which constructs IST8310 and        *)
(* NoiseFeedback, whose startup sequence ends with the ring blank and the  *)
(* buzzer silent, last driven at 392 Hz).                                  *)
StartTicks == {3300}

Init ==
    /\ now \in StartTicks
    /\ dev = "idle"
    /\ devData = <<0, 0, 0>>
    /\ initialized = FALSE
    /\ lastOp = "construct"
    /\ lastRet = None
    /\ lastBus = <<>>
    /\ lastFault = "none"
    /\ preInit = FALSE
    /\ np = setAllLeds(0, 0, 0)
    /\ duty = 0
    /\ pwmFreq = 392
    /\ ledEnabled = TRUE
    /\ buzzerEnabled = TRUE
    /\ lastBeepTime = 0
    /\ beepState = FALSE
    /\ currentFreq = 0
    /\ currentInterval = 0
    /\ buzLog = <<>>
    /\ pc = "initializeF9p"
    /\ iterSteps = <<>>
    /\ uartRx = <<>>
    /\ uartTx = <<>>
    /\ hostIn = <<>>
    /\ hostOut = <<>>
    /\ bytesReceived = 0
    /\ bytesSent = 0
    /\ ledState = FALSE
    /\ lastLedToggle = 0
    /\ lastMagRead = 0
    /\ lastNoise = 0
    /\ rxSeq = 0
    /\ hostSeq = 0
    /\ hostBursts = 0
    /\ tickCount = 0
    /\ sampleCount = 0
    /\ callArg = <<>>
    /\ callRet = <<>>
    /\ uptime = now
    /\ beepStampAt = 0
    /\ magAttempts = <<>>
    /\ magSent = <<>>
    /\ ledToggles = <<>>

(* The clock advances. *)
TickDeltas == {10, 50, 650, TICKS_HALF}

Tick(deltas) ==
    /\ tickCount < MaxTicks
    /\ \E d \in deltas : now' = ticks_add(now, d) /\ uptime' = uptime + d
    /\ tickCount' = tickCount + 1
    /\ UNCHANGED <<beepStampAt, magAttempts, magSent, ledToggles, pureVars, sensorVars, lastRet, lastBus, lastFault, preInit, feedbackVars,
                   buzLog, bridgeVars, rxSeq, hostSeq, hostBursts, sampleCount>>

-----------------------------------------------------------------------------
(* GpsBridge.                                                              *)

Tag(t, bytes) == [i \in 1 .. Len(bytes) |-> <<t, bytes[i]>>]
Drop(bytes, n) == SubSeq(bytes, n + 1, Len(bytes))

\* uart.read(UART_BUFFER_SIZE): what is buffered, at most that many bytes
UartRead(buf) == SubSeq(buf, 1, Min(Len(buf), UART_BUFFER_SIZE))
\* a write that leaves the last byte of data unwritten
StdoutWriteShort(out, data) == out \o SubSeq(data, 1, Len(data) - 1)
\* sys.stdout.buffer.write(data)
StdoutWrite(out, data) == out \o data
\* a write to the receiver link that leaves the last byte of data unwritten
UartWriteShort(tx, data) == tx \o SubSeq(data, 1, Len(data) - 1)
\* uart.write(data)
UartWrite(tx, data) == tx \o data
\* sys.stdin.buffer.read(USB_BUFFER_SIZE): returns once that many bytes came
StdinReadReady(buf) == Len(buf) >= USB_BUFFER_SIZE
StdinRead(buf) == SubSeq(buf, 1, USB_BUFFER_SIZE)
\* the UART receive buffer (rxbuf = UART_BUFFER_SIZE) drops what overflows it
UartBuffered(buf, chunk) ==
    SubSeq(buf \o chunk, 1, Min(Len(buf) + Len(chunk), UART_BUFFER_SIZE))

(* The order of the steps in the `while True` body of GpsBridge.run.       *)
LoopFirst == "processUartData"
\* the loop body with the sensor step ahead of the host-to-receiver step
LoopNextSensorFirst(step) ==
    CASE step = "processUartData"       -> "processMagneticSensor"
      [] step = "processMagneticSensor" -> "processUsbData"
      [] step = "processUsbData"        -> "processBeep"
      [] step = "processBeep"           -> "processUartData"
LoopNext(step) ==
    CASE step = "processUartData"       -> "processUsbData"
      [] step = "processUsbData"        -> "processMagneticSensor"
      [] step = "processMagneticSensor" -> "processBeep"
      [] step = "processBeep"           -> "processUartData"

StepDone(step) == Append(IF step = LoopFirst THEN <<>> ELSE iterSteps, step)

(* GpsBridge.toggleLed: <<ledState, lastLedToggle>> after the call.        *)
\* toggleLed without the 100 ms check
toggleLedAlways(st, last, t) == <<~st, t>>

toggleLed(st, last, t) ==
    IF ticks_diff(t, last) > LED_TOGGLE_MS THEN <<~st, t>> ELSE <<st, last>>

(* GpsBridge.initializeF9p, with the sleeps of the startup path.           *)
InitializeF9p ==
    /\ pc = "initializeF9p"
    /\ uartTx' = UartWrite(UartWrite(UartWrite(uartTx,
                      Tag("cfg", buildCfgMsgCommand(240, 0, 1))),
                      Tag("cfg", buildCfgMsgCommand(240, 4, 1))),
                      Tag("cfg", buildCfgMsgCommand(240, 5, 1)))
    /\ \E present \in BOOLEAN, f \in InitFaults : initialize(present, f)
    /\ pc' = IF lastRet'.raised THEN "aborted" ELSE LoopFirst
    /\ now' = ticks_add(now, 1000 + 200 + 200 + 200 + 500)
    /\ uptime' = uptime + 1000 + 200 + 200 + 200 + 500
    /\ lastOp' = "initializeF9p"
    /\ UNCHANGED <<beepStampAt, magAttempts, magSent, ledToggles, pureVars, feedbackVars, buzLog, iterSteps, uartRx, hostIn, hostOut,
                   bytesReceived, bytesSent, ledState, lastLedToggle, lastMagRead,
                   lastNoise, envVars>>

(* GpsBridge.processUartData *)
ProcessUartData ==
    LET data == IF Len(uartRx) > 0 THEN UartRead(uartRx) ELSE <<>>
        led  == IF data # <<>> THEN toggleLed(ledState, lastLedToggle, now)
                ELSE <<ledState, lastLedToggle>>
    IN
    /\ pc = "processUartData"
    /\ uartRx' = Drop(uartRx, Len(data))
    /\ hostOut' = IF data # <<>> THEN StdoutWrite(hostOut, Tag("rx", data)) ELSE hostOut
    /\ bytesReceived' = bytesReceived + Len(data)
    /\ ledState' = led[1]
    /\ lastLedToggle' = led[2]
    /\ ledToggles' = IF led[1] # ledState THEN Append(ledToggles, uptime) ELSE ledToggles
    /\ pc' = LoopNext("processUartData")
    /\ iterSteps' = StepDone("processUartData")
    /\ lastOp' = "processUartData"
    /\ buzLog' = <<>>
    /\ UNCHANGED <<uptime, beepStampAt, magAttempts, magSent, pureVars, now, sensorVars, lastRet, lastBus, lastFault, preInit, feedbackVars,
                   uartTx, hostIn, bytesSent, lastMagRead, lastNoise, envVars>>

(* GpsBridge.processUsbData up to the read: usbPoller.poll(0) reports      *)
(* whether any host byte is buffered; with none the call returns.          *)
ProcessUsbData ==
    /\ pc = "processUsbData"
    /\ IF hostIn = <<>>
       THEN /\ pc' = LoopNext("processUsbData")
            /\ iterSteps' = StepDone("processUsbData")
       ELSE /\ pc' = "stdinRead"
            /\ iterSteps' = iterSteps
    /\ lastOp' = "processUsbData"
    /\ buzLog' = <<>>
    /\ UNCHANGED <<histVars, pureVars, now, sensorVars, lastRet, lastBus, lastFault, preInit, feedbackVars,
                   uartRx, uartTx, hostIn, hostOut, bytesReceived, bytesSent, ledState,
                   lastLedToggle, lastMagRead, lastNoise, envVars>>

(* GpsBridge.processUsbData from the read on: the read returns             *)
(* USB_BUFFER_SIZE bytes, which are written to the receiver link.          *)
StdinReadReturns ==
    LET data == StdinRead(hostIn) IN
    /\ pc = "stdinRead"
    /\ StdinReadReady(hostIn)
    /\ hostIn' = Drop(hostIn, Len(data))
    /\ uartTx' = UartWrite(uartTx, Tag("host", data))
    /\ bytesSent' = bytesSent + Len(data)
    /\ pc' = LoopNext("processUsbData")
    /\ iterSteps' = StepDone("processUsbData")
    /\ lastOp' = "processUsbData"
    /\ buzLog' = <<>>
    /\ UNCHANGED <<histVars, pureVars, now, sensorVars, lastRet, lastBus, lastFault, preInit, feedbackVars,
                   uartRx, hostOut, bytesReceived, ledState, lastLedToggle,
                   lastMagRead, lastNoise, envVars>>

\* a sensor step that limits nothing
rateLimitedNever(t, last) == FALSE

\* the rate limit of processMagneticSensor: true when the call returns early
rateLimited(t, last) == ticks_diff(t, last) < MAG_READ_INTERVAL_MS

(* GpsBridge.processMagneticSensor *)
ProcessMagneticSensor ==
    /\ pc = "processMagneticSensor"
    /\ \/ /\ rateLimited(now, lastMagRead)
          /\ pc' = LoopNext("processMagneticSensor")
          /\ iterSteps' = StepDone("processMagneticSensor")
          /\ UNCHANGED <<sensorVars, lastRet, lastBus, lastFault, preInit,
                         feedbackVars, hostOut, lastMagRead, lastNoise,
                         magAttempts, magSent>>
       \/ /\ ~rateLimited(now, lastMagRead)
          /\ lastMagRead' = now
          /\ \E f \in ReadFaults : readMagneticField(f)
          /\ magAttempts' = Append(magAttempts, uptime)
          /\ magSent' = IF lastRet'.ok THEN Append(magSent, uptime) ELSE magSent
          /\ IF lastRet'.ok
             THEN /\ lastNoise' = noiseOf(lastRet'.val)
                  /\ update(noiseOf(lastRet'.val))
                  /\ hostOut' = StdoutWrite(hostOut, Tag("mag", formatAsNmea(lastRet'.val)))
             ELSE UNCHANGED <<feedbackVars, hostOut, lastNoise>>
          /\ pc' = IF lastRet'.raised THEN "aborted"
                   ELSE LoopNext("processMagneticSensor")
          /\ iterSteps' = IF lastRet'.raised THEN iterSteps
                          ELSE StepDone("processMagneticSensor")
    /\ lastOp' = "processMagneticSensor"
    /\ buzLog' = <<>>
    /\ UNCHANGED <<uptime, beepStampAt, ledToggles, pureVars, now, uartRx, uartTx, hostIn, bytesReceived, bytesSent, ledState,
                   lastLedToggle, envVars>>

(* self.feedback.processBeep() at the end of the loop body *)
ProcessBeepStep ==
    /\ pc = "processBeep"
    /\ processBeep
    /\ pc' = LoopNext("processBeep")
    /\ iterSteps' = StepDone("processBeep")
    /\ lastOp' = "processBeep"
    /\ UNCHANGED <<uptime, magAttempts, magSent, ledToggles, pureVars, now, sensorVars, lastRet, lastBus, lastFault, preInit, uartRx,
                   uartTx, hostIn, hostOut, bytesReceived, bytesSent, ledState,
                   lastLedToggle, lastMagRead, lastNoise, envVars>>

(* The receiver and the host produce bytes; each byte is named by its      *)
(* serial number on its link.  The loop is a single thread and each of its *)
(* steps runs to completion, so an event of the environment is taken at    *)
(* the position where the loop first can observe it: a receiver byte       *)
(* before processUartData, a host byte before or during processUsbData, a  *)
(* completed measurement before processMagneticSensor, and a clock advance *)
(* before processUartData or processMagneticSensor, which read the clock   *)
(* (processBeep then reads it in the same iteration).                      *)
RxChunkSizes   == {1, 2}
HostBurstSizes == {1, 64}

Serials(from, k) == [i \in 1 .. k |-> from + i]

ReceiverSends ==
    /\ pc = "processUartData"
    /\ \E k \in RxChunkSizes :
          /\ rxSeq + k <= MaxRxBytes
          /\ uartRx' = UartBuffered(uartRx, Serials(rxSeq, k))
          /\ rxSeq' = rxSeq + k
    /\ UNCHANGED <<histVars, pureVars, now, sensorVars, lastOp, lastRet, lastBus, lastFault, preInit, feedbackVars,
                   buzLog, pc, iterSteps, uartTx, hostIn, hostOut, bytesReceived,
                   bytesSent, ledState, lastLedToggle, lastMagRead, lastNoise,
                   hostSeq, hostBursts, tickCount, sampleCount>>

HostSends ==
    /\ pc \in {"processUsbData", "stdinRead"}
    /\ hostBursts < MaxHostBursts
    /\ \E k \in HostBurstSizes :
          /\ hostIn' = hostIn \o Serials(hostSeq, k)
          /\ hostSeq' = hostSeq + k
    /\ hostBursts' = hostBursts + 1
    /\ UNCHANGED <<histVars, pureVars, now, sensorVars, lastOp, lastRet, lastBus, lastFault, preInit, feedbackVars,
                   buzLog, pc, iterSteps, uartRx, uartTx, hostOut, bytesReceived,
                   bytesSent, ledState, lastLedToggle, lastMagRead, lastNoise,
                   rxSeq, tickCount, sampleCount>>

\* one advance passes the 50 ms sensor interval, two pass the 100 ms
\* heartbeat interval
BridgeDeltas == {60}

BridgeTick ==
    /\ pc \in {"processUartData", "processMagneticSensor"}
    /\ Tick(BridgeDeltas)
    /\ UNCHANGED lastOp

BridgeDeviceMeasures == pc = "processMagneticSensor" /\ DeviceMeasures(RawSamples)

Next ==
    \/ InitializeF9p
    \/ ProcessUartData
    \/ ProcessUsbData
    \/ StdinReadReturns
    \/ ProcessMagneticSensor
    \/ ProcessBeepStep
    \/ ReceiverSends
    \/ HostSends
    \/ BridgeDeviceMeasures
    \/ BridgeTick

Spec == Init /\ [][Next]_vars

-----------------------------------------------------------------------------
(* The driver on its own: any sequence of initialize() and                 *)
(* readMagneticField() calls against the device.                           *)
InitializeCall ==
    /\ \E present \in BOOLEAN, f \in InitFaults : initialize(present, f)
    /\ lastOp' = "initialize"
    /\ UNCHANGED <<histVars, pureVars, now, feedbackVars, buzLog, bridgeVars, envVars>>

ReadCall ==
    /\ \E f \in ReadFaults : readMagneticField(f)
    /\ lastOp' = "readMagneticField"
    /\ UNCHANGED <<histVars, pureVars, now, feedbackVars, buzLog, bridgeVars, envVars>>

SensorDeviceMeasures == DeviceMeasures(SensorSamples)

NextSensor == InitializeCall \/ ReadCall \/ SensorDeviceMeasures

SpecSensor == Init /\ [][NextSensor]_vars

(* The driver polled for ever: the caller keeps calling readMagneticField  *)
(* and the device completes every measurement that was started.  A poll   *)
(* that finds the bus working is made again and again, and so is the       *)
(* device's step; no fairness is asked of the calls that meet a fault.     *)
(* As in initializeF9p, initialize is called once, before the first poll.  *)
PollInitialize == lastOp = "construct" /\ InitializeCall

FaultFreeRead ==
    /\ readMagneticField("none")
    /\ lastOp' = "readMagneticField"
    /\ UNCHANGED <<histVars, pureVars, now, feedbackVars, buzLog, bridgeVars, envVars>>

PollDeviceMeasures ==
    /\ dev = "measuring"
    /\ \E raw \in SensorSamples : devData' = raw
    /\ dev' = "ready"
    /\ UNCHANGED <<histVars, pureVars, now, initialized, callVars, feedbackVars, buzLog,
                   bridgeVars, envVars>>

NextSensorPoll == PollInitialize \/ ReadCall \/ FaultFreeRead \/ PollDeviceMeasures

SpecSensorPoll ==
    /\ Init /\ [][NextSensorPoll]_vars
    /\ WF_vars(FaultFreeRead)
    /\ WF_vars(PollDeviceMeasures)

-----------------------------------------------------------------------------
(* The feedback controller on its own: any sequence of update,             *)
(* processBeep, setEnabled and off calls while the clock advances.         *)
NoiseInputs == {10, 550, 650, 1400}

UpdateCall ==
    /\ \E noise \in NoiseInputs : update(noise) /\ callArg' = <<noise>>
    /\ lastOp' = "update"
    /\ buzLog' = <<>>
    /\ UNCHANGED <<histVars, callRet, now, sensorVars, lastRet, lastBus, lastFault, preInit,
                   bridgeVars, envVars>>

ProcessBeepCall ==
    /\ processBeep
    /\ lastOp' = "processBeep"
    /\ UNCHANGED <<uptime, magAttempts, magSent, ledToggles, pureVars, now, sensorVars, lastRet, lastBus, lastFault, preInit,
                   bridgeVars, envVars>>

SetEnabledCall ==
    /\ \E led \in BOOLEAN, buzzer \in BOOLEAN : setEnabled(led, buzzer)
    /\ lastOp' = "setEnabled"
    /\ UNCHANGED <<histVars, pureVars, now, sensorVars, lastRet, lastBus, lastFault, preInit,
                   bridgeVars, envVars>>

OffCall ==
    /\ off
    /\ lastOp' = "off"
    /\ UNCHANGED <<histVars, pureVars, now, sensorVars, lastRet, lastBus, lastFault, preInit,
                   bridgeVars, envVars>>

FeedbackTick == Tick(TickDeltas) /\ lastOp' = "tick"

NextFeedback ==
    UpdateCall \/ ProcessBeepCall \/ SetEnabledCall \/ OffCall \/ FeedbackTick

SpecFeedback == Init /\ [][NextFeedback]_vars

-----------------------------------------------------------------------------
(* The functions of the program called on their own, each on arguments     *)
(* drawn from a bounded set: lastOp names the function, callArg holds the  *)
(* arguments and callRet what it returned.  The functions keep no state,   *)
(* so each behaviour is one call on the program as constructed.            *)
progVars == <<now, sensorVars, lastRet, lastBus, lastFault, preInit, feedbackVars,
              buzLog, bridgeVars, envVars, histVars>>

\* the program as constructed, no call made yet
Fresh == lastOp = "construct"

Call(fn, arg, ret) ==
    /\ lastOp' = fn
    /\ callArg' = arg
    /\ callRet' = ret
    /\ UNCHANGED progVars

ByteSamples    == {0, 1, 128, 255}
ClassIdSamples == {1, 6, 255}
Payloads       == UNION { [1 .. n -> ByteSamples] : n \in 0 .. MaxPayloadLen }
PayloadLengths == {0, 3, 8, 255, 256, 65535, 65536, 65537}

BuildMessageCall ==
    /\ Fresh
    /\ \E msgClass \in ClassIdSamples, msgId \in ClassIdSamples, payload \in Payloads :
           Call("buildMessage", <<msgClass, msgId, payload>>,
                buildMessage(msgClass, msgId, payload))

BuildMessageShapeCall ==
    /\ Fresh
    /\ \E payloadLen \in PayloadLengths :
           Call("buildMessageShape", <<payloadLen>>, buildMessageShape(payloadLen))

BuildEnableEsfRawCall ==
    /\ Fresh
    /\ Call("buildEnableEsfRawCommand", <<CLASS_ESF, ID_ESF_RAW>>, buildEnableEsfRawCommand)

BuildEnableEsfMeasCall ==
    /\ Fresh
    /\ Call("buildEnableEsfMeasCommand", <<CLASS_ESF, ID_ESF_MEAS>>, buildEnableEsfMeasCommand)

BuildCfgMsgCommandCall ==
    /\ Fresh
    /\ \E msgClass \in {240, CLASS_ESF}, msgId \in {0, 2, 3, 4, 5}, uart1Rate \in {0, 1} :
           Call("buildCfgMsgCommand", <<msgClass, msgId, uart1Rate>>,
                buildCfgMsgCommand(msgClass, msgId, uart1Rate))

(* The same CFG-MSG request handed to the three builders of the          *)
(* repository; the result is the three frames, in the order                *)
(* GpsBridge.buildCfgMsgCommand, UbxCommand.buildMessage, the tool's       *)
(* create_ubx_cfg_msg.  Each argument runs over every byte value while the *)
(* other two run over the sample bytes.                                    *)
AllBytes == 0 .. 255
CfgMsgRequests ==
    (AllBytes \X ByteSamples \X ByteSamples)
        \cup (ByteSamples \X AllBytes \X ByteSamples)
        \cup (ByteSamples \X ByteSamples \X AllBytes)
        \cup ({240} \X {0, 4, 5} \X {0, 1})

CfgMsgBuildersCall ==
    /\ Fresh
    /\ \E rq \in CfgMsgRequests :
           Call("cfgMsgBuilders", rq,
                <<buildCfgMsgCommand(rq[1], rq[2], rq[3]),
                  buildMessage(CLASS_CFG, ID_CFG_MSG,
                               <<rq[1], rq[2], 0, rq[3], 0, 1, 0, 0>>),
                  create_ubx_cfg_msg(rq[1], rq[2], rq[3])>>)

NoiseRange == 0 .. MaxNoise100

CalculateColorCall ==
    /\ Fresh
    /\ \E noise \in NoiseRange : Call("calculateColor", <<noise>>, calculateColor(noise))

CalculateBeepParamsCall ==
    /\ Fresh
    /\ \E noise \in NoiseRange :
           Call("calculateBeepParams", <<noise>>, calculateBeepParams(noise))

\* one data register pair converted as readMagneticField converts it
ReadWordCall ==
    /\ Fresh
    /\ \E lo \in 0 .. 255, hi \in 0 .. 255 :
           Call("toSigned", <<lo, hi>>, toSigned(fromLittleEndian(lo, hi)))

\* field components in tenths of a microtesla
MagComponents == {-600, -3, 0, 10, 459}

FormatAsNmeaCall ==
    /\ Fresh
    /\ \E x \in MagComponents, y \in MagComponents, z \in MagComponents :
           Call("formatAsNmea", <<x, y, z>>, formatAsNmea(<<x, y, z>>))

(* The elapsed-time decisions of the loop, each taken with the stored      *)
(* timestamp `last` and the clock `elapsed` ms later: whether processBeep  *)
(* leaves the tone on, whether processMagneticSensor returns early,        *)
(* whether toggleLed inverts the heartbeat.                                *)
StoredStamps  == {5000, TICKS_PERIOD - 700, TICKS_PERIOD - 120, TICKS_PERIOD - 40,
                  TICKS_PERIOD - 1}
ElapsedInputs == {0, 9, 10, 11, 49, 50, 51, 100, 101, 649, 650, 651}

ElapsedDecisionCall ==
    /\ Fresh
    /\ \E last \in StoredStamps, elapsed \in ElapsedInputs, st \in BOOLEAN,
          interval \in {50, 700} :
           LET t == ticks_add(last, elapsed) IN
           Call("elapsed", <<last, elapsed, st, interval, t>>,
                [tone    |-> processBeepOutcome(TRUE, 400, interval, st, last, 392, t).state,
                 limited |-> rateLimited(t, last),
                 toggled |-> toggleLed(FALSE, last, t)[1]])

NextFunctions ==
    \/ BuildMessageCall
    \/ BuildMessageShapeCall
    \/ BuildEnableEsfRawCall
    \/ BuildEnableEsfMeasCall
    \/ BuildCfgMsgCommandCall
    \/ CfgMsgBuildersCall
    \/ CalculateColorCall
    \/ CalculateBeepParamsCall
    \/ ReadWordCall
    \/ FormatAsNmeaCall
    \/ ElapsedDecisionCall

SpecFunctions == Init /\ [][NextFunctions]_vars

-----------------------------------------------------------------------------
(* Properties of the main loop (Spec).                                     *)

RunOrder ==
    <<"processUartData", "processUsbData", "processMagneticSensor", "processBeep">>

\* the step GpsBridge.run is in or about to call
PcStep(p) == IF p = "stdinRead" THEN "processUsbData" ELSE p

\* C1: in every iteration of the main loop the four steps run once each in
\* the order processUartData, processUsbData, processMagneticSensor,
\* processBeep: the steps done in the current iteration are a prefix of
\* that order and the loop stands at the step that follows them.
C1_StepsInOrder ==
    /\ Len(iterSteps) <= Len(RunOrder)
    /\ iterSteps = SubSeq(RunOrder, 1, Len(iterSteps))
    /\ pc \notin {"initializeF9p", "aborted"}
          => PcStep(pc) = RunOrder[(Len(iterSteps) % Len(RunOrder)) + 1]

C1_Witness ==
    /\ iterSteps = RunOrder
    /\ bytesReceived > 0
    /\ bytesSent > 0
    /\ lastRet.ok
    /\ beepState

RxOnHost  == SelectSeq(hostOut, LAMBDA e : e[1] = "rx")
IsMag(i)  == i \in 1 .. Len(hostOut) /\ hostOut[i][1] = "mag"

\* C2: the bytes read from the receiver link are on the host channel in the
\* order they were read, none lost or duplicated, and every $PIMAG sentence
\* is one contiguous run from '$' to the line feed with no receiver byte
\* inside it.
C2_InOrderNoTornSentence ==
    /\ RxOnHost = Tag("rx", Serials(0, rxSeq - Len(uartRx)))
    /\ \A i \in 1 .. Len(hostOut) :
          IsMag(i) =>
            /\ hostOut[i][2] # 10 => IsMag(i + 1)
            /\ hostOut[i][2] # 36 => IsMag(i - 1)

C2_Witness ==
    \E i, j, k \in 1 .. Len(hostOut) :
        /\ i < j /\ j < k
        /\ hostOut[i][1] = "rx" /\ IsMag(j) /\ hostOut[k][1] = "rx"

\* C3: the loop never blocks: no step waits for the environment, whatever
\* the receiver link, the host channel and the sensor bus hold.
C3_LoopNeverBlocks == ~(pc = "stdinRead" /\ ~StdinReadReady(hostIn))

\* C4: sensor and bus errors never stop the bridge: no fault ends the loop,
\* a sensor step passes control on to processBeep whatever happened on the
\* bus, and with the sensor failed the forwarding steps still deliver what
\* they read.
SensorFailed == ~initialized \/ lastFault # "none"

C4_StepsSurvive ==
    /\ (pc = "initializeF9p" /\ pc' # pc) => pc' = "processUartData"
    /\ (pc = "processMagneticSensor" /\ pc' # pc) => pc' = "processBeep"
    /\ (SensorFailed /\ pc = "processUartData" /\ pc' # pc)
          => hostOut' = hostOut \o Tag("rx", uartRx)
    /\ (SensorFailed /\ pc = "stdinRead" /\ pc' # pc)
          => uartTx' = uartTx \o Tag("host", SubSeq(hostIn, 1, USB_BUFFER_SIZE))

C4_SensorErrorsNeverStopBridge ==
    [](pc # "aborted") /\ [][C4_StepsSurvive]_vars

C4_Witness ==
    /\ lastFault \in {"rSTAT1", "rDATA"}
    /\ ticks_diff(lastLedToggle, lastMagRead) > 0
    /\ Len(hostOut) > 0

-----------------------------------------------------------------------------
(* Properties of the IST8310 driver (SpecSensor).                          *)

\* C5: whenever initialize() fails, the driver is Uninitialized afterwards,
\* also when an earlier initialize() call had succeeded.
C5_FailedInitializeLeavesUninitialized ==
    (lastOp = "initialize" /\ ~lastRet.ok) => ~initialized

\* C6: while the driver is Uninitialized, a readMagneticField call returns
\* no data and performs no bus transaction at all.
C6_UninitializedReadIsNoOp ==
    (lastOp = "readMagneticField" /\ ~preInit)
        => (lastRet = None /\ lastBus = <<>> /\ lastFault = "none" /\ ~initialized)

C6_Witness == lastOp = "readMagneticField" /\ ~preInit

\* C7: any bus fault during a readMagneticField call (status read, data
\* read or re-arming write) makes the call return no data and leaves the
\* driver Initialized.
C7_ReadFaultYieldsNoData ==
    (lastOp = "readMagneticField" /\ lastFault # "none")
        => (lastRet = None /\ initialized)

-----------------------------------------------------------------------------
(* Properties of NoiseFeedback (SpecFeedback).                             *)

\* C8: a processBeep call writes the buzzer at most once, and a write
\* always inverts the tone: on only from off, off only from on, so the
\* transitions of successive calls alternate.
C8_AtMostOneAlternatingToggle ==
    [][ lastOp' = "processBeep" =>
          /\ Len(buzLog') <= 1
          /\ (buzLog' # <<>>) <=> (beepState' # beepState)
          /\ (buzLog' # <<>>) =>
                /\ duty' # duty
                /\ beepState' <=> (duty' = DUTY_ON)
                /\ beepState <=> (duty = DUTY_ON) ]_vars

C8_Witness ==
    /\ lastOp = "processBeep"
    /\ buzzerEnabled /\ currentFreq # 0
    /\ buzLog = <<0>>

\* C9: with the stored frequency 0 or the buzzer disabled, a processBeep
\* call leaves the tone off and changes nothing else.
C9_SilentCallOnlyForcesOff ==
    [][ (lastOp' = "processBeep" /\ (~buzzerEnabled \/ currentFreq = 0)) =>
          /\ duty' = 0
          /\ beepState' = FALSE
          /\ \A i \in 1 .. Len(buzLog') : buzLog'[i] = 0
          /\ UNCHANGED <<lastBeepTime, currentFreq, currentInterval, np, pwmFreq,
                         ledEnabled, buzzerEnabled>> ]_vars

C9_Witness ==
    /\ lastOp = "processBeep"
    /\ currentFreq = 0
    /\ buzLog = <<0>>
    /\ lastBeepTime # now

\* C10: setEnabled gates the two channels independently and at once: while
\* the buzzer is disabled the tone is off, while the LEDs are disabled the
\* ring is blank; disabling only the buzzer leaves the LEDs as they were and
\* disabling only the LEDs leaves the tone as it was.
C10_Gated ==
    /\ ~buzzerEnabled => (duty = 0 /\ ~beepState)
    /\ ~ledEnabled => np = setAllLeds(0, 0, 0)

C10_Independent ==
    lastOp' = "setEnabled" =>
        /\ ledEnabled' => np' = np
        /\ buzzerEnabled' => (duty' = duty /\ beepState' = beepState)

C10_SetEnabledGates == [](C10_Gated) /\ [][C10_Independent]_vars

C10_Witness ==
    /\ ~buzzerEnabled /\ ~ledEnabled
    /\ lastOp = "processBeep"
    /\ currentFreq # 0
    /\ ticks_diff(now, lastBeepTime) >= beepWaitTime(currentInterval)

\* C11 as stated: an update(noise) call stores the beep frequency and
\* interval of that noise, sets every one of the 16 LEDs to the computed
\* colour at a quarter of each channel, and leaves the tone state, the
\* buzzer output and the last-toggle timestamp alone.
FlatFill(c) == [i \in LedIndex |-> <<c[1] \div 4, c[2] \div 4, c[3] \div 4>>]

C11_StoresParamsSilently ==
    /\ currentFreq' = calculateBeepParams(callArg'[1])[1]
    /\ currentInterval' = calculateBeepParams(callArg'[1])[2]
    /\ buzLog' = <<>>
    /\ UNCHANGED <<beepState, duty, pwmFreq, lastBeepTime>>

C11_UpdateAlwaysFillsRing ==
    [][ lastOp' = "update" =>
          /\ C11_StoresParamsSilently
          /\ np' = FlatFill(calculateColor(callArg'[1])) ]_vars

\* C11 amended: the flat fill happens while LED output is enabled; while it
\* is disabled update leaves the ring as it is; in both cases the beep
\* parameters are stored and no sound is emitted.
C11_UpdateFillsRingWhenEnabled ==
    [][ lastOp' = "update" =>
          /\ C11_StoresParamsSilently
          /\ ledEnabled => np' = FlatFill(calculateColor(callArg'[1]))
          /\ ~ledEnabled => np' = np ]_vars

C11_Witness ==
    /\ lastOp = "update"
    /\ callArg = <<650>>
    /\ ledEnabled
    /\ beepState
    /\ np = FlatFill(<<159, 223, 0>>)

-----------------------------------------------------------------------------
(* Properties of the functions (SpecFunctions).                            *)

RECURSIVE ByteSum(_)
ByteSum(s) == IF s = <<>> THEN 0 ELSE s[1] + ByteSum(Tail(s))

\* every byte counted once for each position from it to the end
RECURSIVE RunningSum(_)
RunningSum(s) == IF s = <<>> THEN 0 ELSE Len(s) * s[1] + RunningSum(Tail(s))

\* C12: a frame built by buildMessage is 0xB5, 0x62, class, id, the length
\* low and high byte, the payload and two checksum bytes, 8 + len(payload)
\* bytes in all, and the checksum (ckA the sum of the bytes, ckB the sum of
\* the running values of ckA, both mod 256) taken over the frame without its
\* two sync bytes and its two last bytes is those two last bytes.
C12_FrameRoundTrips ==
    lastOp = "buildMessage" =>
        LET payload == callArg[3]
            frame   == callRet
            n       == Len(frame)
            covered == SubSeq(frame, 3, n - 2)
        IN  /\ n = 8 + Len(payload)
            /\ SubSeq(frame, 1, 6) = <<181, 98, callArg[1], callArg[2],
                                       Len(payload) % 256, Len(payload) \div 256>>
            /\ SubSeq(frame, 7, n - 2) = payload
            /\ calculateChecksum(covered) = <<frame[n - 1], frame[n]>>
            /\ frame[n - 1] = ByteSum(covered) % 256
            /\ frame[n] = RunningSum(covered) % 256

C12_Witness ==
    /\ lastOp = "buildMessage"
    /\ Len(callArg[3]) >= 2
    /\ ByteSum(SubSeq(callRet, 3, Len(callRet) - 2)) > 255
    /\ callRet[Len(callRet)] # callRet[Len(callRet) - 1]

\* C13: every CFG-MSG command the program has a builder for, the two for
\* the sensor-fusion messages of class 0x10 and the one used for the NMEA
\* sentences of class 0xF0, carries the 8-byte payload msgClass, msgId and
\* six rate bytes (I2C, UART1, UART2, USB, SPI, reserved), and its USB rate
\* is enabled.
CfgMsgBuilders ==
    {"buildEnableEsfRawCommand", "buildEnableEsfMeasCommand", "buildCfgMsgCommand"}

C13_CfgMsgHasSixRatesUsbOn ==
    lastOp \in CfgMsgBuilders =>
        LET frame   == callRet
            payload == SubSeq(frame, 7, Len(frame) - 2)
        IN  /\ SubSeq(frame, 1, 4) = <<181, 98, 6, 1>>
            /\ frame[5] + 256 * frame[6] = 8
            /\ Len(payload) = 8
            /\ payload[1] = callArg[1]
            /\ payload[2] = callArg[2]
            /\ payload[6] >= 1

\* C14: handed a payload longer than 65535 bytes, buildMessage fails with
\* InvalidPayload and returns no frame; a frame it returns always has a
\* length field equal to the length of its payload.
C14_LongPayloadRejected ==
    lastOp = "buildMessageShape" =>
        /\ callArg[1] > 65535 => callRet.raised
        /\ ~callRet.raised =>
              callRet.lengthField[1] + 256 * callRet.lengthField[2] = callArg[1]

\* C15: calculateColor is continuous at the band boundaries 5.0, 6.0, 8.0
\* and 10.0: the colour at the boundary, which the lower band gives at
\* ratio 1, is the colour the upper band gives at ratio 0, and it is green,
\* yellow-green (128,255,0), orange (255,128,0) and red respectively.
BandBoundaries == {NOISE_THRESHOLD_SAFE100, NOISE_THRESHOLD_CAUTION100,
                   NOISE_THRESHOLD_WARNING100, NOISE_THRESHOLD_DANGER100}

UpperBandAtZero(b) ==
    CASE b = NOISE_THRESHOLD_SAFE100    -> cautionColor(0, 100)
      [] b = NOISE_THRESHOLD_CAUTION100 -> warningColor(0, 200)
      [] b = NOISE_THRESHOLD_WARNING100 -> dangerColor(0, 200)
      [] b = NOISE_THRESHOLD_DANGER100  -> <<255, 0, 0>>

BoundaryColour(b) ==
    CASE b = NOISE_THRESHOLD_SAFE100    -> <<0, 255, 0>>
      [] b = NOISE_THRESHOLD_CAUTION100 -> <<128, 255, 0>>
      [] b = NOISE_THRESHOLD_WARNING100 -> <<255, 128, 0>>
      [] b = NOISE_THRESHOLD_DANGER100  -> <<255, 0, 0>>

C15_ContinuousAtBoundaries ==
    (lastOp = "calculateColor" /\ callArg[1] \in BandBoundaries) =>
        /\ callRet = UpperBandAtZero(callArg[1])
        /\ callRet = BoundaryColour(callArg[1])

\* C16: for every noise, calculateColor returns R, G and B within 0..255
\* with B = 0, pure green at or below 5.0 and pure red from 10.0 upwards.
C16_ColourInRange ==
    lastOp = "calculateColor" =>
        /\ Len(callRet) = 3
        /\ \A k \in 1 .. 3 : callRet[k] \in 0 .. 255
        /\ callRet[3] = 0
        /\ callArg[1] <= 500 => callRet = <<0, 255, 0>>
        /\ callArg[1] >= 1000 => callRet = <<255, 0, 0>>

C16_Witness ==
    /\ lastOp = "calculateColor"
    /\ callArg[1] > 500 /\ callArg[1] < 1000
    /\ callRet[1] = 255
    /\ callRet[2] \in 1 .. 127

\* C17: calculateBeepParams is silent (frequency 0) at or below 5.0; over
\* the bands 5<n<=6, 6<n<=7, 7<n<=8, 8<n<=9, 9<n<=10, n>10, upper edges
\* inclusive, the frequency rises strictly from 400 to 1200 Hz and the
\* interval falls strictly from 700 to 50 ms, one value per band.
BandOf(n) ==
    IF n <= 500 THEN 0
    ELSE IF n <= 600 THEN 1
    ELSE IF n <= 700 THEN 2
    ELSE IF n <= 800 THEN 3
    ELSE IF n <= 900 THEN 4
    ELSE IF n <= 1000 THEN 5
    ELSE 6

BandEdges == {501, 600, 601, 700, 701, 800, 801, 900, 901, 1000, 1001, MaxNoise100}

C17_BeepBandsMonotone ==
    lastOp = "calculateBeepParams" =>
        LET n == callArg[1] IN
        /\ n <= 500 => callRet[1] = 0
        /\ n > 500 => (callRet[1] \in 400 .. 1200 /\ callRet[2] \in 50 .. 700)
        /\ BandOf(n) = 1 => callRet = <<400, 700>>
        /\ BandOf(n) = 6 => callRet = <<1200, 50>>
        /\ \A m \in BandEdges :
              LET other == calculateBeepParams(m) IN
              /\ BandOf(m) = BandOf(n) => other = callRet
              /\ (0 < BandOf(n) /\ BandOf(n) < BandOf(m)) =>
                    (callRet[1] < other[1] /\ callRet[2] > other[2])

C17_Witness ==
    /\ lastOp = "calculateBeepParams"
    /\ callArg = <<700>>
    /\ callRet = <<600, 500>>

\* C18: a raw 16-bit little-endian reading is converted to signed two's
\* complement: 0..32767 maps to itself, 32768..65535 to raw - 65536 (65535
\* gives -1, 32768 gives -32768, 0 gives 0, 32767 gives 32767) and the
\* result lies in -32768..32767.
C18_SignedConversion ==
    lastOp = "toSigned" =>
        LET raw == callArg[1] + 256 * callArg[2] IN
        /\ callRet \in -32768 .. 32767
        /\ (callRet - raw) % 65536 = 0
        /\ raw <= 32767 => callRet = raw
        /\ raw >= 32768 => callRet = raw - 65536
        /\ callArg = <<255, 255>> => callRet = -1
        /\ callArg = <<0, 128>> => callRet = -32768
        /\ callArg = <<0, 0>> => callRet = 0
        /\ callArg = <<255, 127>> => callRet = 32767

C18_Witness ==
    /\ lastOp = "toSigned"
    /\ callArg = <<0, 128>>
    /\ callRet = -32768

\* C19: formatAsNmea returns '$', the body, '*', two uppercase hexadecimal
\* digits and CR LF; the body starts with "PIMAG," and holds neither '$'
\* nor '*'; the two digits are the XOR of the character codes of the body;
\* for (1.0, 0.0, 0.0) the body is PIMAG,1.00,0.00,0.00,1.00.
IsUpperHex(c) == c \in 48 .. 57 \/ c \in 65 .. 70
HexValue(c)   == IF c <= 57 THEN c - 48 ELSE c - 55

C19_SentenceFraming ==
    lastOp = "formatAsNmea" =>
        LET s    == callRet
            n    == Len(s)
            body == SubSeq(s, 2, n - 5)
        IN  /\ n >= 12
            /\ s[1] = 36
            /\ s[n - 4] = 42
            /\ s[n - 1] = 13 /\ s[n] = 10
            /\ SubSeq(body, 1, 6) = <<80, 73, 77, 65, 71, 44>>
            /\ \A k \in 1 .. Len(body) : body[k] \notin {36, 42, 13, 10}
            /\ IsUpperHex(s[n - 3]) /\ IsUpperHex(s[n - 2])
            /\ 16 * HexValue(s[n - 3]) + HexValue(s[n - 2]) = xorFrom(body, 1, 0)
            /\ callArg = <<10, 0, 0>> =>
                  body = <<80, 73, 77, 65, 71, 44, 49, 46, 48, 48, 44, 48, 46, 48, 48,
                           44, 48, 46, 48, 48, 44, 49, 46, 48, 48>>

C19_Witness ==
    /\ lastOp = "formatAsNmea"
    /\ callArg = <<10, 0, 0>>
    /\ SubSeq(callRet, Len(callRet) - 4, Len(callRet)) = <<42, 53, 50, 13, 10>>

\* C20: every elapsed-time decision of the loop, taken with a stored
\* timestamp and the clock read `elapsed` ms later, is the decision on the
\* elapsed time itself, also when the counter wrapped in between: the tone
\* goes off once 50 ms passed and on once the wait time passed, the sensor
\* step returns early below 50 ms, the heartbeat inverts above 100 ms.
C20_DecisionsOnTrueElapsed ==
    lastOp = "elapsed" =>
        LET elapsed  == callArg[2]
            st       == callArg[3]
            interval == callArg[4]
        IN  /\ st => (callRet.tone <=> elapsed < 50)
            /\ ~st => (callRet.tone <=>
                          elapsed >= (IF interval - 50 < 10 THEN 10 ELSE interval - 50))
            /\ callRet.limited <=> elapsed < 50
            /\ callRet.toggled <=> elapsed > 100

\* the clock wrapped between the stored timestamp and the decision
C20_Witness ==
    /\ lastOp = "elapsed"
    /\ callArg[5] < callArg[1]
    /\ callArg[2] = 650
    /\ callRet.tone /\ ~callRet.limited /\ callRet.toggled

-----------------------------------------------------------------------------
(* Further properties of the main loop (Spec).                             *)

HostOnLink == SelectSeq(uartTx, LAMBDA e : e[1] = "host")

\* C21: the host bytes read so far are on the receiver link unchanged, in
\* the order read, and bytesSent is their number; bytesReceived is the
\* number of receiver bytes forwarded to the host; each counter grows by
\* the length of the chunk forwarded in the step and never decreases.
C21_Forwarded ==
    /\ HostOnLink = Tag("host", Serials(0, hostSeq - Len(hostIn)))
    /\ bytesSent = Len(HostOnLink)
    /\ bytesReceived = Len(RxOnHost)

C21_CountersGrowByChunk ==
    /\ bytesSent' >= bytesSent
    /\ bytesReceived' >= bytesReceived
    /\ bytesSent' - bytesSent = Len(hostIn) + (hostSeq' - hostSeq) - Len(hostIn')
    /\ bytesSent' - bytesSent = Len(uartTx') - Len(uartTx)
          \/ pc = "initializeF9p"
    /\ bytesReceived' - bytesReceived = Len(uartRx) + (rxSeq' - rxSeq) - Len(uartRx')
    /\ bytesReceived' # bytesReceived =>
          hostOut' = hostOut \o Tag("rx", SubSeq(uartRx, 1, bytesReceived' - bytesReceived))

C21_CountersMatchForwarding == [](C21_Forwarded) /\ [][C21_CountersGrowByChunk]_vars

C21_Witness ==
    /\ bytesSent = USB_BUFFER_SIZE
    /\ bytesReceived = 2
    /\ Len(uartTx) = 3 * 16 + USB_BUFFER_SIZE
    /\ hostIn = <<>>

\* C22: the loop calls readMagneticField only when at least 50 ms passed
\* since the previous call, and stamps lastMagRead at every call, with or
\* without a sample; so consecutive calls, and consecutive $PIMAG
\* sentences, are at least 50 ms apart, and a sensor step writes at most
\* one sentence.
Spaced(log, gap) == \A k \in 2 .. Len(log) : log[k] - log[k - 1] >= gap

MagSentencesOnHost == Len(SelectSeq(hostOut, LAMBDA e : e = <<"mag", 36>>))

C22_Spaced ==
    /\ Spaced(magAttempts, MAG_READ_INTERVAL_MS)
    /\ Spaced(magSent, MAG_READ_INTERVAL_MS)
    /\ magAttempts # <<>> =>
          lastMagRead = magAttempts[Len(magAttempts)] % TICKS_PERIOD
    /\ MagSentencesOnHost = Len(magSent)
    /\ Len(magSent) <= Len(magAttempts)

C22_Step ==
    /\ Len(magAttempts') <= Len(magAttempts) + 1
    /\ Len(magSent') <= Len(magSent) + 1
    /\ magAttempts' # magAttempts =>
          (pc = "processMagneticSensor" /\ lastMagRead' = now
              /\ (magAttempts # <<>> => uptime - magAttempts[Len(magAttempts)] >= 50))
    /\ (pc = "processMagneticSensor" /\ pc' # pc /\ magAttempts' = magAttempts) =>
          UNCHANGED <<lastMagRead, sensorVars, hostOut, lastBus>>

C22_SensorRateLimited == [](C22_Spaced) /\ [][C22_Step]_vars

\* two sentences, and a call without a sample between them
C22_Witness ==
    /\ Len(magSent) = 2
    /\ Len(magAttempts) = 3

-----------------------------------------------------------------------------
(* Further properties of NoiseFeedback (SpecFeedback).                     *)

\* ms that truly passed since the last-toggle timestamp was recorded
SinceStamp == uptime - beepStampAt
WaitOf(interval) == IF interval - 50 > 10 THEN interval - 50 ELSE 10

\* C23: with the buzzer enabled and a nonzero stored frequency, processBeep
\* turns a sounding tone off only when at least 50 ms passed since the
\* recorded toggle, and turns a silent tone on only when at least
\* max(interval - 50, 10) ms passed since it; each such transition records
\* the current tick as the last-toggle timestamp; a call below the
\* threshold changes nothing.
C23_ToggleOnlyAfterThreshold ==
    [][ (lastOp' = "processBeep" /\ buzzerEnabled /\ currentFreq # 0) =>
          /\ (beepState /\ ~beepState') =>
                (SinceStamp >= 50 /\ lastBeepTime' = now /\ beepStampAt' = uptime
                    /\ duty' = 0)
          /\ (~beepState /\ beepState') =>
                (SinceStamp >= WaitOf(currentInterval) /\ lastBeepTime' = now
                    /\ beepStampAt' = uptime /\ duty' = DUTY_ON
                    /\ pwmFreq' = currentFreq)
          /\ (beepState /\ SinceStamp < 50) =>
                (UNCHANGED <<feedbackVars, beepStampAt>> /\ buzLog' = <<>>)
          /\ (~beepState /\ SinceStamp < WaitOf(currentInterval)) =>
                (UNCHANGED <<feedbackVars, beepStampAt>> /\ buzLog' = <<>>)
          /\ beepState' = beepState =>
                (UNCHANGED <<feedbackVars, beepStampAt>> /\ buzLog' = <<>>) ]_vars

\* C23 as stated: while the buzzer is enabled and the stored frequency is
\* nonzero, a sounding tone goes silent only in a processBeep call made at
\* least 50 ms after the tone was turned on.
C23_OnlyProcessBeepSilences ==
    [][ (buzzerEnabled /\ currentFreq # 0 /\ beepState /\ ~beepState'
            /\ buzzerEnabled' /\ currentFreq' # 0) =>
          (lastOp' = "processBeep" /\ SinceStamp >= 50) ]_vars

\* a tone that went on and the processBeep call that turned it off after
\* the on-duration
C23_Witness ==
    /\ lastOp = "processBeep"
    /\ buzzerEnabled /\ currentFreq # 0
    /\ ~beepState
    /\ SinceStamp = 0
    /\ buzLog = <<0>>
    /\ beepStampAt > 3300

-----------------------------------------------------------------------------
(* Further properties of the IST8310 driver (SpecSensor).                  *)

\* a step of the driver (the device itself does not move) that is a read
\* by an Initialized driver
ReadStep == lastOp' = "readMagneticField" /\ initialized /\ sampleCount' = sampleCount

\* C24: an Initialized readMagneticField call first reads the status
\* register; with the data-ready bit clear it returns no data, reads no
\* data register and writes no start bit; with the bit set (and no bus
\* fault) it reads the data registers, then writes the start bit exactly
\* once, and returns the sample that was in the data registers.
C24_ReadCycle ==
    [][ ReadStep =>
          /\ Len(lastBus') >= 1 /\ lastBus'[1] = "rSTAT1"
          /\ (Drdy(dev) = 0 /\ lastFault' = "none") =>
                /\ lastRet' = None
                /\ lastBus' = <<"rSTAT1">>
                /\ UNCHANGED <<dev, devData, initialized>>
          /\ (Drdy(dev) = 1 /\ lastFault' = "none") =>
                /\ lastBus' = <<"rSTAT1", "rDATA", "wCNTL1">>
                /\ lastRet' = Sample(<<toTenths(devData[1]), toTenths(devData[2]),
                                       toTenths(devData[3])>>)
                /\ dev' = "measuring"
                /\ UNCHANGED <<devData, initialized>>
          /\ lastRet'.ok => (Drdy(dev) = 1 /\ lastBus' = <<"rSTAT1", "rDATA", "wCNTL1">>)
      ]_vars

\* a sample was returned and the next poll found the data-ready bit clear
C24_Witness ==
    /\ lastOp = "readMagneticField" /\ preInit
    /\ lastRet = None /\ lastBus = <<"rSTAT1">> /\ lastFault = "none"
    /\ dev = "measuring"
    /\ sampleCount >= 1

\* C25: the driver becomes Initialized only in an initialize() call in
\* which the scan found the device and the CNTL2 write and then the CNTL1
\* write both completed; it is never Initialized before such a call.
C25_InitializedOnlyAfterBothWrites ==
    /\ [](initialized => lastOp # "construct")
    /\ [][ (~initialized /\ initialized') =>
             /\ lastOp' = "initialize"
             /\ lastBus' = <<"scan", "wCNTL2", "wCNTL1">>
             /\ lastFault' = "none"
             /\ lastRet' = Bool(TRUE)
             /\ dev' = "measuring" ]_vars

\* the first initialize failed at the CNTL1 write, the second succeeded
C25_Witness ==
    /\ lastOp = "initialize" /\ ~preInit /\ initialized
    /\ lastBus = <<"scan", "wCNTL2", "wCNTL1">>
    /\ lastRet = Bool(TRUE)

-----------------------------------------------------------------------------
(* The heartbeat indicator (Spec).                                         *)

\* C26: the heartbeat indicator changes only in a processUartData step
\* that forwarded receiver bytes to the host, and any two toggles are more
\* than 100 ms apart.
C26_LedStep ==
    /\ (ledState' # ledState) =>
          /\ pc = "processUartData"
          /\ Len(RxOnHost') > Len(RxOnHost)
          /\ ledToggles' = Append(ledToggles, uptime)
          /\ lastLedToggle' = now
    /\ (ledState' = ledState) => UNCHANGED <<ledToggles, lastLedToggle>>

C26_HeartbeatSpaced ==
    /\ [](/\ Spaced(ledToggles, LED_TOGGLE_MS + 1)
          /\ (ledToggles # <<>> => lastLedToggle = ledToggles[Len(ledToggles)] % TICKS_PERIOD)
          /\ ledState = (Len(ledToggles) % 2 = 1))
    /\ [][C26_LedStep]_vars

\* two toggles, with bytes forwarded in between that did not toggle
C26_Witness ==
    /\ Len(ledToggles) = 2
    /\ Len(RxOnHost) = 2
    /\ ledToggles[2] - ledToggles[1] = 120

-----------------------------------------------------------------------------
(* The tone flag and the buzzer output (SpecFeedback).                     *)

\* C27: in every state after construction beepState is true exactly when
\* the buzzer is driven (duty nonzero), whatever update, processBeep,
\* setEnabled and off calls were made.
C27_FlagMatchesOutput == beepState <=> (duty # 0)

\* a sounding tone that a processBeep call forced off after the noise
\* fell into the silent band
C27_Witness ==
    /\ lastOp = "processBeep"
    /\ currentFreq = 0 /\ buzzerEnabled
    /\ buzLog = <<0>>
    /\ ~beepState /\ duty = 0
    /\ beepStampAt > 0

-----------------------------------------------------------------------------
(* The polled driver (SpecSensorPoll).                                     *)

SampleReturned == lastOp = "readMagneticField" /\ lastRet.ok

\* C28: once the driver is Initialized, polling that keeps finding the bus
\* working yields a sample again, whatever bus faults hit earlier read
\* cycles, the swallowed fault of the re-arming CNTL1 write included.
C28_PollingRecovers ==
    [](initialized => <>(SampleReturned /\ lastFault = "none"))

-----------------------------------------------------------------------------
(* The start of the tone after a long silence (SpecFeedback).              *)

\* C29: with the buzzer enabled, a nonzero stored frequency and the tone
\* off, a processBeep call made when max(interval - 50, 10) ms have truly
\* elapsed since the last-toggle timestamp was recorded starts the tone,
\* however long the silence before it was.
C29_ToneStartsWhenDue ==
    [][ (lastOp' = "processBeep" /\ buzzerEnabled /\ currentFreq # 0 /\ ~beepState
            /\ SinceStamp >= WaitOf(currentInterval))
          => (beepState' /\ duty' = DUTY_ON) ]_vars

-----------------------------------------------------------------------------
(* Receiver sentences on the host channel (Spec).  The receiver sends      *)
(* sentences of two bytes: bytes 2s - 1 and 2s make up sentence s.         *)
SentenceOf(e) == (e[2] + 1) \div 2

\* C30: no $PIMAG byte lies on the host channel between two bytes of the
\* same receiver sentence, also when the two bytes were read from the
\* receiver link in consecutive iterations.
C30_NoSentenceInsideReceiverSentence ==
    \A i, k \in 1 .. Len(hostOut) :
        (i < k /\ hostOut[i][1] = "rx" /\ hostOut[k][1] = "rx"
              /\ SentenceOf(hostOut[i]) = SentenceOf(hostOut[k]))
            => \A j \in (i + 1) .. (k - 1) : hostOut[j][1] # "mag"

-----------------------------------------------------------------------------
(* The three CFG-MSG builders (SpecFunctions).                             *)

\* C31: for the same msgClass, msgId and UART1 rate, GpsBridge's
\* buildCfgMsgCommand, UbxCommand.buildMessage on the 8-byte payload
\* msgClass, msgId, 0, rate, 0, 1, 0, 0, and the command-line tool's
\* create_ubx_cfg_msg return the same frame, and it is 16 bytes long.
C31_CfgMsgBuildersAgree ==
    lastOp = "cfgMsgBuilders" =>
        /\ callRet[1] = callRet[2]
        /\ callRet[2] = callRet[3]
        /\ Len(callRet[3]) = 16
        /\ SubSeq(callRet[3], 7, 14) =
              <<callArg[1], callArg[2], 0, callArg[3], 0, 1, 0, 0>>

\* GGA on UART1, the request both the bridge and the tool send, and the
\* frame all three builders return for it
C31_Witness ==
    /\ lastOp = "cfgMsgBuilders"
    /\ callArg = <<240, 0, 1>>
    /\ callRet[3] = <<181, 98, 6, 1, 8, 0, 240, 0, 0, 1, 0, 1, 0, 0, 1, 43>>
    /\ callRet[1] = callRet[3]

=============================================================================
